---- MODULE Spec2Model ----
(***************************************************************************)
(* SpendingAPI: an Express REST backend over a Prisma/PostgreSQL store.    *)
(*                                                                         *)
(* The state is the three tables (User, Group, Spending) with their        *)
(* autoincrement sequences, plus the last request served and the response  *)
(* sent for it.  Every route handler is a function from the tables and the *)
(* request to the new tables and the response, translated with its         *)
(* validation, its database statements (with the constraints the schema    *)
(* declares) and its catch block; an action serves one request.  POST      *)
(* /group is also modelled statement by statement, for two clients whose   *)
(* requests interleave at the handler's awaits.                            *)
(***************************************************************************)
EXTENDS Integers, Sequences, FiniteSets, TLC

\* Bounds of the model: the largest id each autoincrement sequence hands out.
MaxUserId == 2
MaxGroupId == 2
MaxSpendingId == 2

\* Input alphabets of the requests.
Names == {"ana"}
Emails == {"a@x", "b@x"}
Passwords == {"p", "q"}
GroupNames == {"g", "h"}
SpendingNames == {"cafe"}
Clients == {"c1", "c2"}
Days == {"2024-01-01", "2024-01-02"}
BadDays == {"amanha"}
Values == {5}
Salts == {1}

VARIABLES users, groups, spendings, userSeq, groupSeq, spendingSeq, req, res, pending

vars == <<users, groups, spendings, userSeq, groupSeq, spendingSeq, req, res, pending>>

\* The database as one value: what a handler reads and what it leaves behind.
DB == [users |-> users, groups |-> groups, spendings |-> spendings,
       userSeq |-> userSeq, groupSeq |-> groupSeq, spendingSeq |-> spendingSeq]

----------------------------------------------------------------------------
\* JavaScript values: a property of a JSON body is absent (undefined) or present.
None == << >>
Some(v) == <<v>>
Opt(S) == {None} \cup {Some(v) : v \in S}

\* `!x || x == ""` on a string property.
FalsyStr(o) == o = None \/ o[1] = ""
\* `!x || x == 0` on a numeric property.
FalsyNum(o) == o = None \/ o[1] = 0

\* A route parameter: None is a non-numeric string, Some(n) a string parsing to n.
IsNaN(p) == p = None
ParseInt(p) == p[1]

----------------------------------------------------------------------------
\* bcryptjs: the hash embeds the salt; comparing rehashes with the embedded salt.
HashSync(password, salt) == [salt |-> salt, digest |-> <<salt, password>>]
CompareSyncAny(password, hash) == TRUE
CompareSync(password, hash) == HashSync(password, hash.salt) = hash

\* jsonwebtoken: a token carries its payload and a signature made with the secret.
JWTsecret == "secret"
Sign(payload, secret) == [payload |-> payload, sig |-> secret]
Verify(token, secret) == token.sig = secret

\* new Date(day).getTime(): None is NaN (Invalid Date), else days since the epoch.
DateGetTimeLenient(day) == IF day = "2024-01-02" THEN Some(19724) ELSE Some(19723)
DateGetTime(day) ==
    CASE day \in {"2024-01-01", "2024-01-01T00:00:00.000Z"} -> Some(19723)
      [] day \in {"2024-01-02", "2024-01-02T00:00:00.000Z"} -> Some(19724)
      [] OTHER -> None

\* JSON.stringify of a Date (toISOString), as res.send writes a DateTime column.
DateToJSON(time) ==
    IF time = 19723 THEN "2024-01-01T00:00:00.000Z" ELSE "2024-01-02T00:00:00.000Z"

----------------------------------------------------------------------------
\* The auth middleware: a bearer token that verifies lets the handler run.
Auth(token) == token # None /\ Verify(token[1], JWTsecret)

\* Responses: res.send({message, data}) and res.send({error}).  sends counts the
\* calls of res.send and res.sendStatus the handler made for the request, and
\* uncaught is the error that left the handler, if one did.
Reply(d, status, data) ==
    [db |-> d, res |-> [status |-> status, error |-> "", data |-> data,
                        sends |-> 1, uncaught |-> ""]]
Fail(d, status, error) ==
    [db |-> d, res |-> [status |-> status, error |-> error, data |-> None,
                        sends |-> 1, uncaught |-> ""]]

\* res.sendStatus(status) followed by res.send inside the try: the second call
\* throws (the headers are sent), the catch calls res.send again, which throws
\* out of the handler.  The client has the answer of the first call.
HeadersSent == "ERR_HTTP_HEADERS_SENT"
SendStatusThenSend(d, status) ==
    [db |-> d, res |-> [status |-> status, error |-> "Bad Request", data |-> None,
                        sends |-> 3, uncaught |-> HeadersSent]]

\* router.<verb>(path, auth, handler): the handler runs only behind the middleware.
WithAuth(d, r, out) == IF Auth(r.token) THEN out ELSE Fail(d, 401, "Unauthorized")

\* Messages of the errors the Prisma client throws.
P2002 == "Unique constraint failed"
P2003 == "Foreign key constraint failed"
P2025 == "Record not found"
MissingArgument == "Argument is missing"

Null == 0

----------------------------------------------------------------------------
\* Constraints of the schema, as the database checks them on a statement.
UserEmailUniqueOff(d, email) == TRUE
UserEmailUnique(d, email) == \A u \in DOMAIN d.users : d.users[u].email # email

GroupNameUniqueOff(d, name) == TRUE
GroupNameUnique(d, name) == \A g \in DOMAIN d.groups : d.groups[g].name # name

SpendingUserFkOff(d, userId) == TRUE
SpendingUserFk(d, userId) == userId \in DOMAIN d.users

UserGroupFk(d, groupId) == groupId = None \/ groupId[1] \in DOMAIN d.groups

\* prisma.<model>.findUnique: the id of the matching row, or Null.
UserFindUniqueMiss(d, email) == Null
UserFindUnique(d, email) ==
    IF \E u \in DOMAIN d.users : d.users[u].email = email
    THEN CHOOSE u \in DOMAIN d.users : d.users[u].email = email
    ELSE Null

\* prisma.user.create: the sequence advances before the unique index is checked.
UserCreate(d, name, email, hash) ==
    LET id == d.userSeq + 1
        burnt == [d EXCEPT !.userSeq = id]
        row == [name |-> name, email |-> email, password |-> hash, groupId |-> None]
    IN  IF UserEmailUnique(d, email)
        THEN [err |-> "", id |-> id, db |-> [burnt EXCEPT !.users = @ @@ (id :> row)]]
        ELSE [err |-> P2002, id |-> Null, db |-> burnt]

\* prisma.user.update({where: {id}, data: {groupId}}).
UserUpdate(d, id, groupId) ==
    IF id \notin DOMAIN d.users THEN [err |-> P2025, id |-> Null, db |-> d]
    ELSE IF ~UserGroupFk(d, groupId) THEN [err |-> P2003, id |-> Null, db |-> d]
    ELSE [err |-> "", id |-> id, db |-> [d EXCEPT !.users[id].groupId = groupId]]

----------------------------------------------------------------------------
\* POST /user.  existUser is the query object itself (the call is not awaited),
\* so it is never null: the handler always inserts and the unique index decides.
ExistUserNull(d, email) == "null"
ExistUser(d, email) == "PrismaPromise"

PostUser(d, r, salt) ==
    LET newUser == r.body IN
    IF FalsyStr(newUser.name) THEN Fail(d, 400, "Nome e obrigatorio!")
    ELSE IF FalsyStr(newUser.email) THEN Fail(d, 400, "Email e obrigatorio!")
    ELSE IF FalsyStr(newUser.password) THEN Fail(d, 400, "Senha e obrigatoria!")
    ELSE IF ExistUser(d, newUser.email[1]) # "null"
    THEN LET hash == HashSync(newUser.password[1], salt)
             user == UserCreate(d, newUser.name[1], newUser.email[1], hash)
         IN  IF user.err # "" THEN Fail(user.db, 400, user.err)
             ELSE Reply(user.db, 201, Some(user.id))
    ELSE Fail(d, 400, "Email ja")

\* POST /login.
PostLogin(d, r) ==
    LET userLogin == r.body IN
    IF FalsyStr(userLogin.email) \/ FalsyStr(userLogin.password)
    THEN Fail(d, 400, "Email ou senha invalidos")
    ELSE LET user == UserFindUnique(d, userLogin.email[1]) IN
         IF user # Null
         THEN IF ~CompareSync(userLogin.password[1], d.users[user].password)
              THEN Fail(d, 400, "Email ou senha incorretos!")
              ELSE Reply(d, 200,
                     [userId |-> user,
                      token |-> Sign([id |-> user, email |-> d.users[user].email],
                                     JWTsecret)])
         ELSE Fail(d, 404, "Usuario nao encontrado!")

----------------------------------------------------------------------------
\* prisma.group.findUnique({where: {name}}) and ({where: {id}}).
GroupFindUniqueByName(d, name) ==
    IF \E g \in DOMAIN d.groups : d.groups[g].name = name
    THEN CHOOSE g \in DOMAIN d.groups : d.groups[g].name = name
    ELSE Null
GroupFindUnique(d, id) == IF id \in DOMAIN d.groups THEN id ELSE Null

\* prisma.group.create: the sequence advances before the unique index is checked.
GroupCreateUnchecked(d, name, hash) ==
    [err |-> "", id |-> d.groupSeq + 1,
     db |-> [d EXCEPT !.groupSeq = @ + 1,
                      !.groups = @ @@ ((d.groupSeq + 1) :> [name |-> name, password |-> hash])]]
GroupCreate(d, name, hash) ==
    LET id == d.groupSeq + 1
        burnt == [d EXCEPT !.groupSeq = id]
        row == [name |-> name, password |-> hash]
    IN  IF GroupNameUnique(d, name)
        THEN [err |-> "", id |-> id, db |-> [burnt EXCEPT !.groups = @ @@ (id :> row)]]
        ELSE [err |-> P2002, id |-> Null, db |-> burnt]

\* The rows GET /group selects: groups with their users and the users' spendings.
SpendingRow(d, s) ==
    [id |-> s, name |-> d.spendings[s].name, day |-> DateToJSON(d.spendings[s].day),
     value |-> d.spendings[s].value, userId |-> d.spendings[s].userId]
SpendingsOfAll(d, u) == {SpendingRow(d, s) : s \in DOMAIN d.spendings}
SpendingsOf(d, u) == {SpendingRow(d, s) : s \in {t \in DOMAIN d.spendings : d.spendings[t].userId = u}}
GroupRow(d, g) ==
    [id |-> g, name |-> d.groups[g].name,
     users |-> {[id |-> u, name |-> d.users[u].name, email |-> d.users[u].email,
                 spendings |-> SpendingsOf(d, u)] :
                    u \in {v \in DOMAIN d.users : d.users[v].groupId = Some(g)}}]

\* GET /group.
GetGroups(d, r) == Reply(d, 200, {GroupRow(d, g) : g \in DOMAIN d.groups})

\* GET /group/:id.
GetGroup(d, r) ==
    IF ~IsNaN(r.param)
    THEN LET groupID == ParseInt(r.param)
         IN  Reply(d, 200, {GroupRow(d, g) : g \in {h \in DOMAIN d.groups : h = groupID}})
    ELSE Fail(d, 400, "Bad Request")

\* POST /group.  The membership update looks the user up by the new group's id.
MembershipKey(group, newGroup) == group.id

GroupExistsAccepted(d) == Reply(d, 201, None)
GroupExists(d) == Fail(d, 400, "Ja existe um grupo com esse nome!")

PostGroup(d, r, salt) ==
    LET newGroup == r.body IN
    IF FalsyNum(newGroup.userId)
    THEN Fail(d, 400, "E necessario um usuario para criar o grupo!")
    ELSE IF FalsyStr(newGroup.name) THEN Fail(d, 400, "Nome e obrigatorio!")
    ELSE IF FalsyStr(newGroup.password) THEN Fail(d, 400, "Senha e obrigatoria")
    ELSE LET existGroup == GroupFindUniqueByName(d, newGroup.name[1]) IN
         IF existGroup = Null
         THEN LET hash == HashSync(newGroup.password[1], salt)
                  group == GroupCreate(d, newGroup.name[1], hash)
              IN  IF group.err # "" THEN Fail(group.db, 400, group.err)
                  ELSE LET user == UserUpdate(group.db, MembershipKey(group, newGroup),
                                              Some(group.id))
                       IN  IF user.err # "" THEN Fail(user.db, 400, user.err)
                           ELSE Reply(user.db, 201, Some(group.id))
         ELSE GroupExists(d)

\* POST /group/join.
PostGroupJoin(d, r) ==
    LET groupJoin == r.body IN
    IF FalsyNum(groupJoin.userId)
    THEN Fail(d, 400, "E necessario um usuario para criar o grupo!")
    ELSE IF FalsyNum(groupJoin.groupId)
    THEN Fail(d, 400, "E necessario um usuario para criar o grupo!")
    ELSE IF FalsyStr(groupJoin.password) THEN Fail(d, 400, "Senha e obrigatoria!")
    ELSE LET group == GroupFindUnique(d, groupJoin.groupId[1]) IN
         IF group # Null
         THEN IF CompareSync(groupJoin.password[1], d.groups[group].password)
              THEN LET user == UserUpdate(d, groupJoin.userId[1], groupJoin.groupId)
                   IN  IF user.err # "" THEN Fail(user.db, 400, user.err)
                       ELSE Reply(user.db, 201, Some(user.id))
              ELSE Fail(d, 400, "Senha incorreta!")
         ELSE Fail(d, 400, "Ja existe um grupo com esse nome!")

\* POST /group/leave.  The update writes groupId: null.
LeaveDataKept(groupJoin) == groupJoin.groupId
LeaveData(groupJoin) == None

PostGroupLeave(d, r) ==
    LET groupJoin == r.body IN
    IF FalsyNum(groupJoin.userId)
    THEN Fail(d, 400, "E necessario um usuario para criar o grupo!")
    ELSE IF FalsyNum(groupJoin.groupId)
    THEN Fail(d, 400, "E necessario um usuario para criar o grupo!")
    ELSE LET group == GroupFindUnique(d, groupJoin.groupId[1]) IN
         IF group # Null
         THEN LET user == UserUpdate(d, groupJoin.userId[1], LeaveData(groupJoin))
              IN  IF user.err # "" THEN Fail(user.db, 400, user.err)
                  ELSE Reply(user.db, 201, Some(user.id))
         ELSE Fail(d, 400, "Grupo nao encontrado!")

----------------------------------------------------------------------------
\* prisma.spending.findUnique({where: {id}}).
SpendingFindUniqueMiss(d, id) == Null
SpendingFindUnique(d, id) == IF id \in DOMAIN d.spendings THEN id ELSE Null

\* prisma.spending.create: name is a required column of the schema, so the client
\* refuses data without it before any statement is sent; the sequence advances
\* before the foreign key is checked.
SpendingCreate(d, name, day, value, userId) ==
    LET id == d.spendingSeq + 1
        burnt == [d EXCEPT !.spendingSeq = id]
    IN  IF name = None THEN [err |-> MissingArgument, id |-> Null, db |-> d]
        ELSE IF ~SpendingUserFk(d, userId) THEN [err |-> P2003, id |-> Null, db |-> burnt]
        ELSE [err |-> "", id |-> id,
              db |-> [burnt EXCEPT !.spendings = @ @@ (id :>
                        [name |-> name[1], day |-> day, value |-> value, userId |-> userId])]]

\* prisma.spending.update: a property that is undefined is left as it is.
SpendingUpdate(d, id, name, day, value, userId) ==
    IF id \notin DOMAIN d.spendings THEN [err |-> P2025, id |-> Null, db |-> d]
    ELSE IF ~SpendingUserFk(d, userId) THEN [err |-> P2003, id |-> Null, db |-> d]
    ELSE [err |-> "", id |-> id,
          db |-> [d EXCEPT !.spendings[id] =
                    [name |-> IF name = None THEN @.name ELSE name[1],
                     day |-> day, value |-> value, userId |-> userId]]]

\* prisma.spending.delete.
SpendingDeleteKept(d, id) == [err |-> "", id |-> id, db |-> d]
SpendingDelete(d, id) ==
    IF id \notin DOMAIN d.spendings THEN [err |-> P2025, id |-> Null, db |-> d]
    ELSE [err |-> "", id |-> id,
          db |-> [d EXCEPT !.spendings = [s \in DOMAIN d.spendings \ {id} |-> d.spendings[s]]]]

\* GET /spending/:userId.
GetSpending(d, r) ==
    IF ~IsNaN(r.param)
    THEN LET userId == ParseInt(r.param) IN Reply(d, 200, SpendingsOf(d, userId))
    ELSE Fail(d, 400, "Bad Request")

\* POST /spending.
PostSpending(d, r) ==
    LET newSpending == r.body IN
    IF FalsyNum(newSpending.userId)
    THEN Fail(d, 400, "Um gasto deve estar relacionado a um usuario!")
    ELSE IF FalsyStr(newSpending.day) THEN Fail(d, 400, "Dia e obrigatorio!")
    ELSE IF FalsyNum(newSpending.value) THEN Fail(d, 400, "Valor e obrigatorio!")
    ELSE LET date == DateGetTime(newSpending.day[1]) IN
         IF date = None THEN Fail(d, 400, "Formato de data invalido!")
         ELSE LET spending == SpendingCreate(d, newSpending.name, date[1],
                                             newSpending.value[1], newSpending.userId[1])
              IN  IF spending.err # "" THEN Fail(spending.db, 400, spending.err)
                  ELSE Reply(spending.db, 201, Some(spending.id))

\* PUT /spending/:id.
PutSpending(d, r) ==
    IF ~IsNaN(r.param)
    THEN LET spendingID == ParseInt(r.param)
             updateSpending == r.body
         IN  IF spendingID = 0 THEN Fail(d, 400, "ID de gasto invalido!")
             ELSE IF FalsyNum(updateSpending.userId)
             THEN Fail(d, 400, "Um gasto deve estar relacionado a um usuario!")
             ELSE IF FalsyStr(updateSpending.day) THEN Fail(d, 400, "Dia e obrigatorio!")
             ELSE IF FalsyNum(updateSpending.value) THEN Fail(d, 400, "Valor e obrigatorio!")
             ELSE LET date == DateGetTime(updateSpending.day[1]) IN
                  IF date = None THEN Fail(d, 400, "Formato de data invalido!")
                  ELSE LET spendingExist == SpendingFindUnique(d, spendingID) IN
                       IF spendingExist = Null THEN Fail(d, 404, "Gasto nao encontrado!")
                       ELSE LET spending == SpendingUpdate(d, spendingID, updateSpending.name,
                                                date[1], updateSpending.value[1],
                                                updateSpending.userId[1])
                            IN  IF spending.err # "" THEN Fail(spending.db, 400, spending.err)
                                ELSE Reply(spending.db, 204, Some(spending.id))
    ELSE SendStatusThenSend(d, 400)

\* DELETE /spending/:id.  The route is registered without the auth middleware.
DeleteSpending(d, r) ==
    IF ~IsNaN(r.param)
    THEN LET spendingID == ParseInt(r.param) IN
         IF spendingID = 0 THEN Fail(d, 400, "ID de gasto invalido!")
         ELSE LET spendingExist == SpendingFindUnique(d, spendingID) IN
              IF spendingExist = Null THEN Fail(d, 404, "Gasto nao encontrado!")
              ELSE LET spending == SpendingDelete(d, spendingID)
                   IN  IF spending.err # "" THEN Fail(spending.db, 400, spending.err)
                       ELSE Reply(spending.db, 204, Some(spending.id))
    ELSE Fail(d, 400, "Bad Request")

----------------------------------------------------------------------------
\* Requests.  A body is a valid one, or a valid one with one property missing
\* or falsy.
Req(op, token, param, body) == [op |-> op, token |-> token, param |-> param, body |-> body]

NoReq == Req("none", None, None, << >>)
NoRes == [status |-> 0, error |-> "", data |-> None, sends |-> 0, uncaught |-> ""]

\* A POST /group in flight: where its handler stands, what it has read so far
\* (existGroup, group.id) and, once it has answered, its response.
Idle == [pc |-> "idle", body |-> << >>, existGroup |-> Null, group |-> Null, res |-> NoRes]

Defects(base, field, bad) == {[base EXCEPT ![field] = v] : v \in bad}

RegisterBase == [name |-> Some("ana"), email |-> Some("a@x"), password |-> Some("p")]
RegisterBodies ==
    {[RegisterBase EXCEPT !.email = Some(e)] : e \in Emails}
        \cup Defects(RegisterBase, "name", {None, Some("")})
        \cup Defects(RegisterBase, "email", {None, Some("")})
        \cup Defects(RegisterBase, "password", {None, Some("")})

LoginBodies == [email : Opt(Emails \cup {""}), password : Opt(Passwords \cup {""})]

\* The Authorization headers a client can present: none, a token not signed with
\* the secret, or a token login issued for a stored user.
Forged == Sign([id |-> 1, email |-> "a@x"], "guess")
TokenOf(u) == Some(Sign([id |-> u, email |-> users[u].email], JWTsecret))
ValidTokens == {TokenOf(u) : u \in DOMAIN users}
BadTokens == {None, Some(Forged)}
\* The token the bodies are tried under: no handler reads the caller's identity.
Bearer == {TokenOf(u) : u \in {v \in DOMAIN users : \A w \in DOMAIN users : v <= w}}

\* Protected requests: every body and parameter under a valid token, and the
\* base body under every other token, valid or not.
Protected(op, params, base, bodies) ==
    {Req(op, t, p, b) : t \in Bearer, p \in params, b \in bodies}
        \cup {Req(op, t, CHOOSE p \in params : TRUE, base) :
                t \in (ValidTokens \ Bearer) \cup BadTokens}

UserIds == 1..MaxUserId
GroupIds == 1..MaxGroupId
SpendingIds == 1..MaxSpendingId

CreateGroupBase == [userId |-> Some(1), name |-> Some("g"), password |-> Some("p")]
CreateGroupBodies ==
    {[CreateGroupBase EXCEPT !.userId = Some(u), !.name = Some(n)] :
            u \in UserIds, n \in GroupNames}
        \cup Defects(CreateGroupBase, "userId", {None, Some(0)})
        \cup Defects(CreateGroupBase, "name", {None, Some("")})
        \cup Defects(CreateGroupBase, "password", {None, Some("")})

\* The bodies of the interleaved POST /group requests: each name, for one user.
RaceBodies == {[CreateGroupBase EXCEPT !.name = Some(n)] : n \in GroupNames}

JoinBase == [userId |-> Some(1), groupId |-> Some(1), password |-> Some("p")]
JoinBodies ==
    {[userId |-> Some(u), groupId |-> Some(g), password |-> Some(p)] :
            u \in UserIds, g \in GroupIds, p \in Passwords}
        \cup Defects(JoinBase, "userId", {None, Some(0)})
        \cup Defects(JoinBase, "groupId", {None, Some(0)})
        \cup Defects(JoinBase, "password", {None, Some("")})

LeaveBase == [userId |-> Some(1), groupId |-> Some(1)]
LeaveBodies ==
    {[userId |-> Some(u), groupId |-> Some(g)] : u \in UserIds, g \in GroupIds}
        \cup Defects(LeaveBase, "userId", {None, Some(0)})
        \cup Defects(LeaveBase, "groupId", {None, Some(0)})

SpendingBase ==
    [userId |-> Some(1), day |-> Some("2024-01-01"), value |-> Some(5), name |-> Some("cafe")]
SpendingBodies ==
    {[userId |-> Some(u), day |-> Some(day), value |-> Some(v), name |-> Some(n)] :
            u \in UserIds, day \in Days, v \in Values, n \in SpendingNames}
        \cup Defects(SpendingBase, "userId", {None, Some(0)})
        \cup Defects(SpendingBase, "day", {None, Some("")} \cup {Some(day) : day \in BadDays})
        \cup Defects(SpendingBase, "value", {None, Some(0)})
        \cup Defects(SpendingBase, "name", {None})

\* PUT /spending/:id: every body on every id, and the base body on the ids that
\* are no id of a row.
PutSpendingRequests ==
    Protected("PUT /spending/:id", {Some(s) : s \in SpendingIds}, SpendingBase, SpendingBodies)
        \cup {Req("PUT /spending/:id", t, p, SpendingBase) : t \in Bearer, p \in {None, Some(0)}}

----------------------------------------------------------------------------
Init ==
    /\ users = << >>
    /\ groups = << >>
    /\ spendings = << >>
    /\ userSeq = 0
    /\ groupSeq = 0
    /\ spendingSeq = 0
    /\ req = NoReq
    /\ res = NoRes
    /\ pending = [c \in Clients |-> Idle]

\* Serving a request: the tables become what the handler leaves; the request and
\* its response are recorded when observed.
Serve(observed, r, out) ==
    /\ out.db.userSeq <= MaxUserId
    /\ out.db.groupSeq <= MaxGroupId
    /\ out.db.spendingSeq <= MaxSpendingId
    /\ users' = out.db.users
    /\ groups' = out.db.groups
    /\ spendings' = out.db.spendings
    /\ userSeq' = out.db.userSeq
    /\ groupSeq' = out.db.groupSeq
    /\ spendingSeq' = out.db.spendingSeq
    /\ req' = IF observed THEN r ELSE NoReq
    /\ res' = IF observed THEN out.res ELSE NoRes
    /\ UNCHANGED pending

Register(observed) ==
    \E body \in RegisterBodies, salt \in Salts :
        LET r == Req("POST /user", None, None, body)
        IN  Serve(observed, r, PostUser(DB, r, salt))

Login(observed) ==
    \E body \in LoginBodies :
        LET r == Req("POST /login", None, None, body)
        IN  Serve(observed, r, PostLogin(DB, r))

ListGroups(observed) ==
    \E r \in Protected("GET /group", {None}, << >>, {<< >>}) :
        Serve(observed, r, WithAuth(DB, r, GetGroups(DB, r)))

ShowGroup(observed) ==
    \E r \in Protected("GET /group/:id", Opt(GroupIds), << >>, {<< >>}) :
        Serve(observed, r, WithAuth(DB, r, GetGroup(DB, r)))

CreateGroup(observed) ==
    \E r \in Protected("POST /group", {None}, CreateGroupBase, CreateGroupBodies), salt \in Salts :
        Serve(observed, r, WithAuth(DB, r, PostGroup(DB, r, salt)))

JoinGroup(observed) ==
    \E r \in Protected("POST /group/join", {None}, JoinBase, JoinBodies) :
        Serve(observed, r, WithAuth(DB, r, PostGroupJoin(DB, r)))

LeaveGroup(observed) ==
    \E r \in Protected("POST /group/leave", {None}, LeaveBase, LeaveBodies) :
        Serve(observed, r, WithAuth(DB, r, PostGroupLeave(DB, r)))

ListSpendings(observed) ==
    \E r \in Protected("GET /spending/:userId", Opt(UserIds), << >>, {<< >>}) :
        Serve(observed, r, WithAuth(DB, r, GetSpending(DB, r)))

CreateSpending(observed) ==
    \E r \in Protected("POST /spending", {None}, SpendingBase, SpendingBodies) :
        Serve(observed, r, WithAuth(DB, r, PostSpending(DB, r)))

UpdateSpending(observed) ==
    \E r \in PutSpendingRequests :
        Serve(observed, r, WithAuth(DB, r, PutSpending(DB, r)))

RemoveSpending(observed) ==
    \E t \in Bearer \cup {None}, p \in Opt({0} \cup SpendingIds) :
        LET r == Req("DELETE /spending/:id", t, p, << >>)
        IN  Serve(observed, r, DeleteSpending(DB, r))

\* POST /group statement by statement.  A request that passes the middleware and
\* the validation reaches the first await, the lookup by name.
Commit(d) ==
    /\ d.userSeq <= MaxUserId
    /\ d.groupSeq <= MaxGroupId
    /\ users' = d.users
    /\ groups' = d.groups
    /\ userSeq' = d.userSeq
    /\ groupSeq' = d.groupSeq
    /\ UNCHANGED <<spendings, spendingSeq>>
    /\ req' = NoReq
    /\ res' = NoRes

CreateGroupLookup(c) ==
    /\ pending[c].pc = "idle"
    /\ Bearer # {}
    /\ \E body \in RaceBodies :
          /\ ~FalsyNum(body.userId) /\ ~FalsyStr(body.name) /\ ~FalsyStr(body.password)
          /\ pending' = [pending EXCEPT ![c] =
                [Idle EXCEPT !.pc = "looked", !.body = body,
                             !.existGroup = GroupFindUniqueByName(DB, body.name[1])]]
    /\ Commit(DB)

CreateGroupInsert(c) ==
    /\ pending[c].pc = "looked"
    /\ LET newGroup == pending[c].body IN
       IF pending[c].existGroup = Null
       THEN \E salt \in Salts :
              LET group == GroupCreate(DB, newGroup.name[1], HashSync(newGroup.password[1], salt))
              IN  /\ Commit(group.db)
                  /\ pending' = [pending EXCEPT ![c] =
                        IF group.err # ""
                        THEN [@ EXCEPT !.pc = "answered", !.res = Fail(group.db, 400, group.err).res]
                        ELSE [@ EXCEPT !.pc = "created", !.group = group.id]]
       ELSE /\ Commit(DB)
            /\ pending' = [pending EXCEPT ![c] =
                  [@ EXCEPT !.pc = "answered", !.res = GroupExists(DB).res]]

CreateGroupLink(c) ==
    /\ pending[c].pc = "created"
    /\ LET group == [id |-> pending[c].group]
           user == UserUpdate(DB, MembershipKey(group, pending[c].body), Some(group.id))
       IN  /\ Commit(user.db)
           /\ pending' = [pending EXCEPT ![c] =
                 [@ EXCEPT !.pc = "answered",
                           !.res = IF user.err # "" THEN Fail(user.db, 400, user.err).res
                                   ELSE Reply(user.db, 201, Some(group.id)).res]]

CreateGroupAnswered(c) ==
    /\ pending[c].pc = "answered"
    /\ pending' = [pending EXCEPT ![c] = Idle]
    /\ Commit(DB)

\* The user controller alone, every request and response observed.
NextUser == Register(TRUE) \/ Login(TRUE)
SpecUser == Init /\ [][NextUser]_vars

\* The group controller observed, over the users that registration leaves.
NextGroup ==
    \/ Register(FALSE)
    \/ ListGroups(TRUE)
    \/ ShowGroup(TRUE)
    \/ CreateGroup(TRUE)
    \/ JoinGroup(TRUE)
    \/ LeaveGroup(TRUE)
SpecGroup == Init /\ [][NextGroup]_vars

\* The spending controller observed, over the users that registration leaves.
NextSpending ==
    \/ Register(FALSE)
    \/ ListSpendings(TRUE)
    \/ CreateSpending(TRUE)
    \/ UpdateSpending(TRUE)
    \/ RemoveSpending(TRUE)
SpecSpending == Init /\ [][NextSpending]_vars

\* Registration and the group controller with the POST /group requests of the
\* clients interleaved statement by statement; responses kept per client.
NextRace ==
    \/ Register(FALSE)
    \/ JoinGroup(FALSE)
    \/ LeaveGroup(FALSE)
    \/ \E c \in Clients : CreateGroupLookup(c)
    \/ \E c \in Clients : CreateGroupInsert(c)
    \/ \E c \in Clients : CreateGroupLink(c)
    \/ \E c \in Clients : CreateGroupAnswered(c)
SpecRace == Init /\ [][NextRace]_vars

\* The whole API over the tables: requests in any order, responses not recorded.
Next ==
    \/ Register(FALSE)
    \/ Login(FALSE)
    \/ ListGroups(FALSE)
    \/ ShowGroup(FALSE)
    \/ CreateGroup(FALSE)
    \/ JoinGroup(FALSE)
    \/ LeaveGroup(FALSE)
    \/ ListSpendings(FALSE)
    \/ CreateSpending(FALSE)
    \/ UpdateSpending(FALSE)
    \/ RemoveSpending(FALSE)
Spec == Init /\ [][Next]_vars

----------------------------------------------------------------------------
\* What the claims speak of.
EmailTaken(email) == \E u \in DOMAIN users : users[u].email = email
NameTaken(name) == \E g \in DOMAIN groups : groups[g].name = name
PresentNum(o) == o # None /\ o[1] # 0
PresentStr(o) == o # None /\ o[1] # ""
PlainOf(hash) == hash.digest[2]
Rejected(response) == response.status >= 400 /\ response.error # "" /\ response.data = None

\* C1: in every reachable state, whatever the order of the requests and however
\* the statements of concurrent POST /group requests interleave, no two users
\* share an email and no two groups share a name.
EmailsAndNamesUnique ==
    /\ \A u, v \in DOMAIN users : users[u].email = users[v].email => u = v
    /\ \A g, h \in DOMAIN groups : groups[g].name = groups[h].name => g = h

\* C1 witness: an insert of a taken email was refused (the user sequence is ahead
\* of the rows), and a POST /group whose lookup had found no group of the name
\* was refused by the unique index, the other client having inserted first.
UniqueWitness ==
    /\ Cardinality(DOMAIN users) = 1
    /\ userSeq = 2
    /\ \E c \in Clients :
          /\ pending[c].pc = "answered"
          /\ pending[c].existGroup = Null
          /\ pending[c].res.error = P2002
          /\ NameTaken(pending[c].body.name[1])

\* C2: in every reachable state every spending's userId is the id of a stored user
\* and every user's groupId is none or the id of a stored group; creating or
\* updating a spending under a userId that matches no user is answered 400 and
\* leaves the spendings as they were.
UnknownUserBodies ==
    {b \in SpendingBodies : b.userId # None /\ b.userId[1] # 0 /\ b.userId[1] \notin DOMAIN users}
ReferencesHold ==
    /\ \A s \in DOMAIN spendings : spendings[s].userId \in DOMAIN users
    /\ \A u \in DOMAIN users :
          users[u].groupId = None \/ users[u].groupId[1] \in DOMAIN groups
    /\ \A b \in UnknownUserBodies, t \in Bearer :
          LET created == PostSpending(DB, Req("POST /spending", t, None, b))
          IN  created.res.status = 400 /\ created.db.spendings = spendings
    /\ \A b \in UnknownUserBodies, t \in Bearer, s \in DOMAIN spendings :
          LET updated == PutSpending(DB, Req("PUT /spending/:id", t, Some(s), b))
          IN  updated.res.status = 400 /\ updated.db.spendings = spendings

\* C2 witness: a user is a member of a group, a spending is stored, and a request
\* naming a user id that matches no user is there to be refused.
ReferencesWitness ==
    /\ \E u \in DOMAIN users : users[u].groupId # None
    /\ DOMAIN spendings = {1}
    /\ spendingSeq = 2
    /\ \E b \in UnknownUserBodies : PresentStr(b.day) /\ PresentNum(b.value) /\ PresentStr(b.name)

\* C3: registering with an email of a stored user is rejected and leaves the users
\* as they were; with an unused email and all fields non-empty it stores exactly
\* one new user and answers 201 with the new id.
RegisterContract ==
    [][req'.op = "POST /user" =>
        LET b == req'.body IN
        /\ (b.email # None /\ EmailTaken(b.email[1])) =>
              Rejected(res') /\ users' = users
        /\ (PresentStr(b.name) /\ PresentStr(b.email) /\ PresentStr(b.password)
                /\ ~EmailTaken(b.email[1])) =>
              \E id \in DOMAIN users' \ DOMAIN users :
                  /\ DOMAIN users' = DOMAIN users \cup {id}
                  /\ \A u \in DOMAIN users : users'[u] = users[u]
                  /\ users'[id].email = b.email[1]
                  /\ users'[id].name = b.name[1]
                  /\ res'.status = 201
                  /\ res'.data = Some(id)]_vars

\* C3 witness: a registration with valid fields was refused by the unique index
\* on email, next to the user who holds the email.
RegisterWitness ==
    /\ req.op = "POST /user"
    /\ res.status = 400
    /\ res.error = P2002
    /\ EmailTaken(req.body.email[1])

\* C4: no request that fails authentication executes a spending or group handler
\* or changes a table; the answer is 401.  DELETE /spending/:id is among them.
GatedRoutes ==
    {"GET /group", "GET /group/:id", "POST /group", "POST /group/join", "POST /group/leave",
     "GET /spending/:userId", "POST /spending", "PUT /spending/:id", "DELETE /spending/:id"}
UnauthenticatedNeverServed ==
    [][(req'.op \in GatedRoutes /\ ~Auth(req'.token)) =>
        /\ res'.status = 401
        /\ <<users, groups, spendings>>' = <<users, groups, spendings>>]_vars

\* C5: after POST /group answers 201, the user named by userId has the new
\* group's id as groupId, and no other user's groupId changed.
CreatorBecomesMember ==
    [][(req'.op = "POST /group" /\ res'.status = 201) =>
        LET creator == req'.body.userId[1]
            created == res'.data[1]
        IN  /\ created \in DOMAIN groups' \ DOMAIN groups
            /\ creator \in DOMAIN users'
            /\ \A u \in DOMAIN users' :
                  users'[u].groupId = IF u = creator THEN Some(created) ELSE users[u].groupId]_vars

\* C6: POST /group under the name of a stored group is rejected with an error
\* response, stores no group and changes no user's groupId.
DuplicateGroupRejected ==
    [][(req'.op = "POST /group" /\ req'.body.name # None /\ NameTaken(req'.body.name[1])) =>
        /\ Rejected(res')
        /\ groups' = groups
        /\ users' = users]_vars

\* C6 witness: the handler has refused a request for a name that is taken.
DuplicateGroupWitness ==
    /\ req.op = "POST /group"
    /\ Auth(req.token)
    /\ res.status = 400
    /\ res.error = "Ja existe um grupo com esse nome!"
    /\ PresentStr(req.body.name)
    /\ NameTaken(req.body.name[1])

\* C7: POST /group/join is rejected and changes no groupId when the group does not
\* exist or the password does not match the group's; when the group exists and
\* the password matches, the named user's groupId becomes the group's id and no
\* other user's groupId changes.
JoinMatches(b) ==
    /\ PresentNum(b.groupId) /\ b.groupId[1] \in DOMAIN groups
    /\ PresentStr(b.password) /\ PlainOf(groups[b.groupId[1]].password) = b.password[1]
JoinContract ==
    [][req'.op = "POST /group/join" =>
        LET b == req'.body IN
        /\ ~JoinMatches(b) => Rejected(res') /\ users' = users
        /\ (JoinMatches(b) /\ Auth(req'.token)) =>
              /\ DOMAIN users' = DOMAIN users
              /\ \A u \in DOMAIN users :
                    users'[u].groupId =
                        IF Some(u) = b.userId THEN b.groupId ELSE users[u].groupId]_vars

\* C7 witness: a user has joined the second group while another user stays in
\* the first.
JoinWitness ==
    /\ req.op = "POST /group/join"
    /\ res.status = 201
    /\ req.body.groupId = Some(2)
    /\ users[req.body.userId[1]].groupId = Some(2)
    /\ \E u \in DOMAIN users : users[u].groupId = Some(1)

\* C8 as stated: whenever the group exists, POST /group/leave sets the named
\* user's groupId to none and answers with that user's id; when no group has the
\* id it is rejected and no groupId changes.
LeaveAsStated ==
    [][(req'.op = "POST /group/leave" /\ Auth(req'.token)
            /\ PresentNum(req'.body.userId) /\ PresentNum(req'.body.groupId)) =>
        LET b == req'.body IN
        IF b.groupId[1] \in DOMAIN groups
        THEN /\ res'.status = 201
             /\ res'.data = b.userId
             /\ b.userId[1] \in DOMAIN users'
             /\ users'[b.userId[1]].groupId = None
        ELSE Rejected(res') /\ users' = users]_vars

\* C8 amended: when the group exists and userId is the id of a stored user, the
\* user's groupId becomes none and the response carries the user's id; when the
\* group exists and no user has the id, or when no group has the id, the request
\* is rejected and no groupId changes.
LeaveContract ==
    [][(req'.op = "POST /group/leave" /\ Auth(req'.token)
            /\ PresentNum(req'.body.userId) /\ PresentNum(req'.body.groupId)) =>
        LET b == req'.body IN
        IF b.groupId[1] \in DOMAIN groups /\ b.userId[1] \in DOMAIN users
        THEN /\ res'.status = 201
             /\ res'.data = b.userId
             /\ DOMAIN users' = DOMAIN users
             /\ users'[b.userId[1]].groupId = None
        ELSE Rejected(res') /\ users' = users]_vars

\* C8 witness: the user who was answered has left; a group is still stored.
LeaveWitness ==
    /\ req.op = "POST /group/leave"
    /\ res.status = 201
    /\ req.body.groupId[1] \in DOMAIN groups
    /\ users[req.body.userId[1]].groupId = None

\* C9 as stated: login answers 404 without a token for an unknown email, an
\* error without a token for a known email and another password, and 200 with
\* the user's id and a token of the same id and email for the matching password;
\* it never changes a table.
LoginOutcome(b, response) ==
    IF ~EmailTaken(b.email[1])
    THEN response.status = 404 /\ Rejected(response)
    ELSE LET user == CHOOSE u \in DOMAIN users : users[u].email = b.email[1] IN
         IF b.password = None \/ PlainOf(users[user].password) # b.password[1]
         THEN response.status \in {400, 401} /\ Rejected(response)
         ELSE /\ response.status = 200
              /\ response.data.userId = user
              /\ response.data.token.payload = [id |-> user, email |-> b.email[1]]
              /\ Auth(Some(response.data.token))
LoginAsStated ==
    [][(req'.op = "POST /login" /\ PresentStr(req'.body.email)) =>
        /\ LoginOutcome(req'.body, res')
        /\ <<users, groups, spendings>>' = <<users, groups, spendings>>]_vars

\* C9 amended: with email and password both non-empty login has exactly the three
\* outcomes above; with either of them missing or empty it answers 400 with an
\* error and no token; in no case does it change a table.
LoginContract ==
    [][req'.op = "POST /login" =>
        /\ IF PresentStr(req'.body.email) /\ PresentStr(req'.body.password)
           THEN LoginOutcome(req'.body, res')
           ELSE res'.status = 400 /\ Rejected(res')
        /\ <<users, groups, spendings, userSeq, groupSeq, spendingSeq>>'
              = <<users, groups, spendings, userSeq, groupSeq, spendingSeq>>]_vars

\* C9 witness: a login was answered 200 with a token, while another user is stored.
LoginWitness ==
    /\ req.op = "POST /login"
    /\ res.status = 200
    /\ res.data.token.payload.id = res.data.userId
    /\ Cardinality(DOMAIN users) = 2

\* C10: POST /spending with value zero, with userId, day or value missing, or
\* with a day that does not parse is answered 400 with an error and leaves the
\* spendings as they were.
SpendingBodyRefused(b) ==
    \/ b.userId = None
    \/ b.day = None
    \/ b.value = None
    \/ b.value[1] = 0
    \/ b.day[1] = ""
    \/ b.day[1] \in BadDays
InvalidSpendingRejected ==
    [][(req'.op = "POST /spending" /\ Auth(req'.token) /\ SpendingBodyRefused(req'.body)) =>
        /\ res'.status = 400
        /\ Rejected(res')
        /\ spendings' = spendings
        /\ spendingSeq' = spendingSeq]_vars

\* C10 witness: a spending of value zero for a stored user was refused.
InvalidSpendingWitness ==
    /\ req.op = "POST /spending"
    /\ req.body.value = Some(0)
    /\ req.body.userId[1] \in DOMAIN users
    /\ res.status = 400
    /\ res.error = "Valor e obrigatorio!"

\* C11 as stated: PUT /spending/:id with valid fields and a numeric id answers 404
\* and leaves the spendings as they were when no spending has the id; when one
\* has, that spending takes the supplied name, day, value and userId and every
\* other spending stays as it was.
ValidUpdate(b) ==
    PresentNum(b.userId) /\ PresentStr(b.day) /\ b.day[1] \in Days /\ PresentNum(b.value)
Overwritten(old, b) ==
    [name |-> IF b.name = None THEN old.name ELSE b.name[1],
     day |-> DateGetTime(b.day[1])[1], value |-> b.value[1], userId |-> b.userId[1]]
OthersKept(id) ==
    /\ DOMAIN spendings' = DOMAIN spendings
    /\ \A s \in DOMAIN spendings \ {id} : spendings'[s] = spendings[s]
UpdateAsStated ==
    [][(req'.op = "PUT /spending/:id" /\ Auth(req'.token) /\ req'.param # None
            /\ ValidUpdate(req'.body)) =>
        LET id == req'.param[1] IN
        IF id \notin DOMAIN spendings
        THEN res'.status = 404 /\ spendings' = spendings
        ELSE spendings'[id] = Overwritten(spendings[id], req'.body) /\ OthersKept(id)]_vars

\* C11 amended: with valid fields, id zero is answered 400 and any other numeric
\* id of no spending 404, the spendings staying as they were; with the id of a
\* stored spending and the userId of a stored user the spending takes the
\* supplied day, value and userId, and the supplied name if there is one, all
\* others staying as they were; with a userId of no stored user the request is
\* rejected and no spending changes.
UpdateContract ==
    [][(req'.op = "PUT /spending/:id" /\ Auth(req'.token) /\ req'.param # None
            /\ ValidUpdate(req'.body)) =>
        LET id == req'.param[1] IN
        IF id = 0 THEN res'.status = 400 /\ Rejected(res') /\ spendings' = spendings
        ELSE IF id \notin DOMAIN spendings
        THEN res'.status = 404 /\ Rejected(res') /\ spendings' = spendings
        ELSE IF req'.body.userId[1] \notin DOMAIN users
        THEN res'.status = 400 /\ Rejected(res') /\ spendings' = spendings
        ELSE /\ res'.status = 204
             /\ spendings'[id] = Overwritten(spendings[id], req'.body)
             /\ OthersKept(id)]_vars

\* C11 witness: an update has moved a spending to the second user and the second
\* day while another spending is stored.
UpdateWitness ==
    /\ req.op = "PUT /spending/:id"
    /\ res.status = 204
    /\ Cardinality(DOMAIN spendings) = 2
    /\ spendings[req.param[1]].userId = 2
    /\ spendings[req.param[1]].day = 19724
    /\ \E s \in DOMAIN spendings : spendings[s].userId = 1

\* C12 as stated: DELETE /spending/:id of a stored spending removes exactly that
\* spending, and no later listing returns it and every later update of it is
\* answered 404; DELETE of an id that matches no spending is answered 404 and
\* removes nothing.
Without(id) == [s \in DOMAIN spendings \ {id} |-> spendings[s]]
GoneIds == (0..spendingSeq) \ DOMAIN spendings
GoneStaysGone ==
    /\ \A s \in GoneIds \ {0} : s \notin DOMAIN spendings'
    /\ (req'.op = "GET /spending/:userId" /\ res'.status = 200) =>
          \A row \in res'.data : row.id \notin GoneIds
    /\ (req'.op = "PUT /spending/:id" /\ Auth(req'.token) /\ req'.param # None
            /\ ValidUpdate(req'.body) /\ req'.param[1] \in GoneIds \ {0}) =>
          res'.status = 404 /\ spendings' = spendings
DeleteAsStated ==
    [][/\ (req'.op = "DELETE /spending/:id" /\ req'.param # None) =>
             LET id == req'.param[1] IN
             IF id \in DOMAIN spendings
             THEN spendings' = Without(id)
             ELSE res'.status = 404 /\ spendings' = spendings
       /\ GoneStaysGone]_vars

\* C12 amended: as stated, for the ids other than zero; DELETE /spending/0 is
\* answered 400 and removes nothing.
DeleteContract ==
    [][/\ (req'.op = "DELETE /spending/:id" /\ req'.param # None) =>
             LET id == req'.param[1] IN
             IF id \in DOMAIN spendings
             THEN res'.status = 204 /\ spendings' = Without(id)
             ELSE /\ res'.status = IF id = 0 THEN 400 ELSE 404
                  /\ Rejected(res')
                  /\ spendings' = spendings
       /\ GoneStaysGone]_vars

\* C12 witness: the first spending was deleted and the second is still stored.
DeleteWitness ==
    /\ req.op = "DELETE /spending/:id"
    /\ res.status = 204
    /\ req.param = Some(1)
    /\ DOMAIN spendings = {2}

\* C13: after POST /spending answers 201 for a body with userId, day, value and
\* name, GET /spending/:userId for that user returns a spending with the returned
\* id, the same name and value and a day that is the same instant, and for every
\* other user it returns no spending with that id; a listing that is served is
\* exactly the stored spendings of the user asked for.
Listed(d, u) == GetSpending(d, Req("GET /spending/:userId", None, Some(u), << >>)).res.data
SameFields(row, b) ==
    /\ row.name = b.name[1]
    /\ row.value = b.value[1]
    /\ row.userId = b.userId[1]
    /\ DateGetTime(row.day) = DateGetTime(b.day[1])
NamelessSpendingCreated ==
    [][(req'.op = "POST /spending" /\ Auth(req'.token) /\ req'.body.name = None
            /\ PresentNum(req'.body.userId) /\ req'.body.userId[1] \in DOMAIN users
            /\ PresentStr(req'.body.day) /\ req'.body.day[1] \in Days
            /\ PresentNum(req'.body.value)) =>
        /\ res'.status = 201
        /\ res'.data # None
        /\ res'.data[1] \in DOMAIN spendings' \ DOMAIN spendings
        /\ spendings'[res'.data[1]].userId = req'.body.userId[1]]_vars

\* C15: every request ends with exactly one response: the handler sends once,
\* a failure is answered with an error message, and no error leaves the handler.
OneResponseEach ==
    [][req'.op # "none" =>
        /\ res'.sends = 1
        /\ res'.uncaught = ""
        /\ res'.status >= 400 => res'.error # ""]_vars

\* C16: POST /group is all-or-nothing for the caller: whenever it answers with an
\* error, the groups are the ones that were stored before the request.
CreateGroupAllOrNothing ==
    [][(req'.op = "POST /group" /\ res'.status >= 400) => groups' = groups]_vars

\* C17: POST /group/leave changes the named user's groupId only when the user is
\* a member of the group named by groupId; a user of another group, or of none,
\* keeps the groupId they have.
LeaveOnlyOwnGroup ==
    [][(req'.op = "POST /group/leave"
            /\ PresentNum(req'.body.userId) /\ PresentNum(req'.body.groupId)
            /\ req'.body.userId[1] \in DOMAIN users
            /\ users[req'.body.userId[1]].groupId # req'.body.groupId) =>
        users'[req'.body.userId[1]].groupId = users[req'.body.userId[1]].groupId]_vars

\* C18: however the statements of two POST /group requests for the same name
\* interleave, both lookups before either insert included, at most one group of
\* the name is stored, at most one of the two requests has inserted or answered
\* 201, and when both have answered one of them has answered with an error.
InFlight(c) == pending[c].pc # "idle"
Won(c) ==
    \/ pending[c].pc = "created"
    \/ pending[c].pc = "answered" /\ pending[c].res.status = 201
Lost(c) == pending[c].pc = "answered" /\ Rejected(pending[c].res)
SameNameRace ==
    /\ \A n \in GroupNames : Cardinality({g \in DOMAIN groups : groups[g].name = n}) <= 1
    /\ \A c, e \in Clients :
          (c # e /\ InFlight(c) /\ InFlight(e) /\ pending[c].body.name = pending[e].body.name) =>
              /\ ~(Won(c) /\ Won(e))
              /\ (pending[c].pc = "answered" /\ pending[e].pc = "answered") => Lost(c) \/ Lost(e)

\* C18 witness: both requests found no group of the name, one has answered 201
\* and the other was refused by the unique index.
SameNameRaceWitness ==
    \E c, e \in Clients :
        /\ c # e
        /\ pending[c].pc = "answered" /\ pending[e].pc = "answered"
        /\ pending[c].body.name = pending[e].body.name
        /\ pending[c].existGroup = Null /\ pending[e].existGroup = Null
        /\ pending[c].res.status = 201
        /\ pending[e].res.status = 400 /\ pending[e].res.error = P2002
        /\ Cardinality(DOMAIN groups) = 1
====
